---- MODULE Spec2Model ----
(***************************************************************************)
(* Model of the price aggregation and arbitrage detection core:            *)
(*   app/services/exchanges.py     adapters and ExchangeManager            *)
(*   app/services/price_monitor.py PriceMonitorService                     *)
(*   app/api/prices.py             the compare_prices endpoint             *)
(*   app/main.py                   the shutdown event                      *)
(* Floats are modelled by exact rationals (num/den); timestamps and        *)
(* logging are left out.                                                   *)
(***************************************************************************)
EXTENDS Integers, Sequences, FiniteSets, TLC

\* ------------------------------------------------------------------------
\* Bounds and program constants
\* ------------------------------------------------------------------------

\* prices a provider may quote: 0 and 200 .. 200 + MaxPriceStep
MaxPriceStep == 2

Prices == {0} \cup {200 + i : i \in 0..MaxPriceStep}

\* PriceMonitorService.__init__: min_profit_percentage = 0.5 = 1/2
MinProfitNum == 1

MinProfitDen == 2

\* ExchangeManager._initialize_exchanges: dict insertion order
RegistryOrder == <<"binance", "coinbase", "kraken">>

Adapters == {RegistryOrder[i] : i \in 1..Len(RegistryOrder)}

\* PriceMonitorService.__init__
supported_symbols == <<"BTC", "ETH">>

Symbols == {supported_symbols[i] : i \in 1..Len(supported_symbols)}

\* one ExchangeManager.get_all_prices call frame per supported symbol
Slots == 1..Len(supported_symbols)

\* ------------------------------------------------------------------------
\* Values: Optional[float] results and raised exceptions
\* ------------------------------------------------------------------------

None == [kind |-> "none", v |-> 0]

Exc == [kind |-> "exc", v |-> 0]

Value(p) == [kind |-> "value", v |-> p]

\* ------------------------------------------------------------------------
\* Upstream responses (the input of an adapter call)
\* ------------------------------------------------------------------------

NoResp == [net |-> "-", status |-> 0, body |-> "-", pair |-> "-", price |-> 0]

\* an exception that escapes get_price (BaseExchangeClient.get_price raises)
Fault == [net |-> "fault", status |-> 0, body |-> "-", pair |-> "-", price |-> 0]

NetFail(kind) == [net |-> kind, status |-> 0, body |-> "-", pair |-> "-", price |-> 0]

Http(status, body, pair, p) ==
    [net |-> "ok", status |-> status, body |-> body, pair |-> pair, price |-> p]

\* KrakenClient.get_price: symbol_mapping.get(symbol, symbol)
KrakenSymbol(symbol) ==
    CASE symbol = "BTC" -> "XXBTZUSD"
      [] symbol = "ETH" -> "XETHZUSD"
      [] symbol = "BTCUSDT" -> "XXBTZUSD"
      [] symbol = "ETHUSDT" -> "XETHZUSD"
      [] OTHER -> symbol

KrakenPairs == {KrakenSymbol(s) : s \in Symbols}

\* the key under which a provider reports the symbol's ticker
PairOf(a, symbol) == IF a = "kraken" THEN KrakenSymbol(symbol) ELSE "-"

\* every response shape an adapter may meet
DetailedResponses(a) ==
    {NetFail("error"), NetFail("timeout")}
    \cup {Http(st, "price", PairOf(a, sym), 200) : st \in {404, 500}, sym \in Symbols}
    \cup {Http(200, b, PairOf(a, sym), 200) :
             b \in {"not_json", "no_price", "bad_price"}, sym \in Symbols}
    \cup (IF a = "kraken"
          THEN {Http(200, "no_result", "-", 0)}
               \cup {Http(200, "price", pr, p) : pr \in KrakenPairs, p \in Prices}
          ELSE {Http(200, "price", "-", p) : p \in Prices})

\* a quote for the asked symbol, or a timeout
PlainResponses(a, symbol) ==
    {NetFail("timeout")} \cup {Http(200, "price", PairOf(a, symbol), p) : p \in Prices}

\* a zero, equal or distinct quote, a timeout, or a get_price that raises
FaultyResponses(a, symbol) ==
    {NetFail("timeout"), Fault}
    \cup {Http(200, "price", PairOf(a, symbol), p) : p \in {0, 200, 201}}

\* response.raise_for_status()
is_success(resp) == resp.status >= 200 /\ resp.status <= 299

\* ------------------------------------------------------------------------
\* Adapters
\* ------------------------------------------------------------------------

\* mutant: no try/except around the fetch
CatchNone_propagate(r) == r

\* try: ... except Exception: return None
CatchNone(r) == IF r.kind = "exc" THEN None ELSE r

\* body of the try block of BinanceClient.get_price after _get_client
BinanceFetch(resp) ==
    IF resp.net # "ok" THEN Exc                \* client.get raises
    ELSE IF ~is_success(resp) THEN Exc         \* raise_for_status
    ELSE IF resp.body = "not_json" THEN Exc    \* response.json()
    ELSE IF resp.body = "no_price" THEN Exc    \* data["price"]: KeyError
    ELSE IF resp.body = "bad_price" THEN Exc   \* float(): ValueError
    ELSE Value(resp.price)

BinanceClient_get_price(hasClient, symbol, resp) ==
    IF ~hasClient THEN None ELSE CatchNone(BinanceFetch(resp))

CoinbaseFetch(resp) ==
    IF resp.net # "ok" THEN Exc
    ELSE IF ~is_success(resp) THEN Exc
    ELSE IF resp.body = "not_json" THEN Exc
    ELSE IF resp.body = "no_price" THEN Exc
    ELSE IF resp.body = "bad_price" THEN Exc
    ELSE Value(resp.price)

CoinbaseClient_get_price(hasClient, symbol, resp) ==
    IF ~hasClient THEN None ELSE CatchNone(CoinbaseFetch(resp))

KrakenFetch(symbol, resp) ==
    IF resp.net # "ok" THEN Exc
    ELSE IF ~is_success(resp) THEN Exc
    ELSE IF resp.body = "not_json" THEN Exc
    ELSE IF resp.body = "no_result" THEN None             \* "result" not in data
    ELSE IF resp.pair # KrakenSymbol(symbol) THEN None    \* symbol not in data["result"]
    ELSE IF resp.body = "no_price" THEN Exc               \* ticker_data["a"][0]
    ELSE IF resp.body = "bad_price" THEN Exc
    ELSE Value(resp.price)

KrakenClient_get_price(hasClient, symbol, resp) ==
    IF ~hasClient THEN None ELSE CatchNone(KrakenFetch(symbol, resp))

\* the call client.get_price(symbol) of the registered adapter a
get_price(a, hasClient, symbol, resp) ==
    IF resp = Fault THEN Exc
    ELSE CASE a = "binance" -> BinanceClient_get_price(hasClient, symbol, resp)
           [] a = "coinbase" -> CoinbaseClient_get_price(hasClient, symbol, resp)
           [] a = "kraken" -> KrakenClient_get_price(hasClient, symbol, resp)

\* ------------------------------------------------------------------------
\* ExchangeManager (pure parts)
\* ------------------------------------------------------------------------

\* mutant: the registry is built again on every call
initialize_exchanges_again(ex, init, failsAll, failsEach) ==
    IF failsAll = {} THEN RegistryOrder
    ELSE SelectSeq(RegistryOrder, LAMBDA a : a \notin failsEach)

\* ExchangeManager._initialize_exchanges: the registry after the call, given
\* the constructors that raise in the dict literal (failsAll) and in the
\* one-by-one fallback (failsEach)
initialize_exchanges(ex, init, failsAll, failsEach) ==
    IF init THEN ex
    ELSE IF failsAll = {} THEN RegistryOrder
    ELSE SelectSeq(RegistryOrder, LAMBDA a : a \notin failsEach)

\* prices[exchange_name] = value on a dict kept as a sequence of items
DictSet(d, k, v) ==
    IF \E i \in 1..Len(d) : d[i].k = k
    THEN [i \in 1..Len(d) |-> IF d[i].k = k THEN [k |-> k, v |-> v] ELSE d[i]]
    ELSE Append(d, [k |-> k, v |-> v])

DictKeys(d) == {d[i].k : i \in 1..Len(d)}

DictGet(d, k) == d[CHOOSE i \in 1..Len(d) : d[i].k = k].v

\* mutant: asyncio.gather(*tasks) without return_exceptions=True
gather_raising(names, tk) ==
    IF \E i \in 1..Len(names) : tk[names[i]].res.kind = "exc"
    THEN [kind |-> "exc"]
    ELSE [kind |-> "results", v |-> [i \in 1..Len(names) |-> tk[names[i]].res]]

\* asyncio.gather(*tasks, return_exceptions=True): the results in the order
\* of the awaitables, whatever the order of completion
gather(names, tk) ==
    [kind |-> "results", v |-> [i \in 1..Len(names) |-> tk[names[i]].res]]

\* mutant: the results are paired with the names in the opposite order
RECURSIVE CollectPrices_reversed(_, _, _, _)
CollectPrices_reversed(exchange_names, results, i, prices) ==
    IF i > Len(results) THEN prices
    ELSE CollectPrices_reversed(exchange_names, results, i + 1,
            DictSet(prices, exchange_names[i],
                    IF results[Len(results) + 1 - i].kind = "exc" THEN None
                    ELSE results[Len(results) + 1 - i]))

\* the loop over enumerate(results) of ExchangeManager.get_all_prices
RECURSIVE CollectPrices(_, _, _, _)
CollectPrices(exchange_names, results, i, prices) ==
    IF i > Len(results) THEN prices
    ELSE CollectPrices(exchange_names, results, i + 1,
            DictSet(prices, exchange_names[i],
                    IF results[i].kind = "exc" THEN None ELSE results[i]))

\* what ExchangeManager.get_all_prices returns once every task is done (an
\* exception raised by the await would leave the call)
ExchangeManager_get_all_prices(exchange_names, tk) ==
    LET results == gather(exchange_names, tk) IN
    IF results.kind = "exc" THEN [kind |-> "exc"]
    ELSE [kind |-> "dict", v |-> CollectPrices(exchange_names, results.v, 1, <<>>)]

\* ------------------------------------------------------------------------
\* PriceMonitorService (pure parts)
\* ------------------------------------------------------------------------

\* a float kept as the exact quotient num/den, den > 0
Rat(n, d) == IF d < 0 THEN [num |-> -n, den |-> -d] ELSE [num |-> n, den |-> d]

RatLess(a, b) == a.num * b.den < b.num * a.den

RatEq(a, b) == a.num * b.den = b.num * a.den

\* def __init__(self, min_profit_percentage: float = 0.5)
DefaultMinProfit == Rat(MinProfitNum, MinProfitDen)

\* PriceMonitorService.min_profit_percentage, set by the constructor
VARIABLE min_profit_percentage

\* the Price objects built from prices_dict.items()
RECURSIVE PriceObjects(_, _, _)
PriceObjects(symbol, d, i) ==
    IF i > Len(d) THEN <<>>
    ELSE (IF d[i].v.kind # "none"
          THEN <<[exchange |-> d[i].k, symbol |-> symbol, price |-> d[i].v.v]>>
          ELSE <<>>) \o PriceObjects(symbol, d, i + 1)

\* mutant: the last item with the largest key
PyMax_last(prices) ==
    prices[CHOOSE i \in 1..Len(prices) :
              /\ \A j \in 1..Len(prices) : prices[j].price <= prices[i].price
              /\ \A j \in (i + 1)..Len(prices) : prices[j].price < prices[i].price]

\* max(prices, key=lambda p: p.price): the first item with the largest key
PyMax(prices) ==
    prices[CHOOSE i \in 1..Len(prices) :
              /\ \A j \in 1..Len(prices) : prices[j].price <= prices[i].price
              /\ \A j \in 1..(i - 1) : prices[j].price < prices[i].price]

\* min(prices, key=lambda p: p.price): the first item with the smallest key
PyMin(prices) ==
    prices[CHOOSE i \in 1..Len(prices) :
              /\ \A j \in 1..Len(prices) : prices[j].price >= prices[i].price
              /\ \A j \in 1..(i - 1) : prices[j].price > prices[i].price]

NoComparison == [kind |-> "none"]

\* mutant: the difference is related to the highest price
Percentage_of_highest(price_difference, lowest) ==
    Rat(price_difference * 100, lowest + price_difference)

\* price_difference_percentage = (price_difference / lowest_price.price) * 100
Percentage(price_difference, lowest) == Rat(price_difference * 100, lowest)

\* mutant: the comparison is attempted with a single price
CompareBody_one_price(symbol, dres) ==
    IF dres.kind = "exc" THEN [kind |-> "exc"] ELSE
    LET prices == PriceObjects(symbol, dres.v, 1) IN
    IF Len(prices) < 1 THEN NoComparison
    ELSE LET highest_price == PyMax(prices)
             lowest_price == PyMin(prices)
             price_difference == highest_price.price - lowest_price.price
         IN IF lowest_price.price = 0 THEN [kind |-> "exc"]
            ELSE [kind |-> "cmp",
                  symbol |-> symbol,
                  prices |-> prices,
                  highest_price |-> highest_price,
                  lowest_price |-> lowest_price,
                  price_difference |-> price_difference,
                  price_difference_percentage |->
                      Percentage(price_difference, lowest_price.price)]

\* the try block of get_price_comparison, given what the awaited
\* exchange_manager.get_all_prices(symbol) produced
CompareBody(symbol, dres) ==
    IF dres.kind = "exc" THEN [kind |-> "exc"] ELSE
    LET prices == PriceObjects(symbol, dres.v, 1) IN
    IF Len(prices) < 2 THEN NoComparison
    ELSE LET highest_price == PyMax(prices)
             lowest_price == PyMin(prices)
             price_difference == highest_price.price - lowest_price.price
         IN IF lowest_price.price = 0 THEN [kind |-> "exc"]   \* ZeroDivisionError
            ELSE [kind |-> "cmp",
                  symbol |-> symbol,
                  prices |-> prices,
                  highest_price |-> highest_price,
                  lowest_price |-> lowest_price,
                  price_difference |-> price_difference,
                  price_difference_percentage |->
                      Percentage(price_difference, lowest_price.price)]

\* mutant: get_price_comparison without its try/except
CatchNoComparison_propagate(r) == r

\* except Exception: return None
CatchNoComparison(r) == IF r.kind = "exc" THEN NoComparison ELSE r

get_price_comparison(symbol, dres) == CatchNoComparison(CompareBody(symbol, dres))

\* mutant: no threshold test
BelowThreshold_never(pct) == FALSE

\* mutant: <= instead of <
BelowThreshold_or_equal(pct) == ~RatLess(min_profit_percentage, pct)

\* the threshold test of find_arbitrage_opportunities
BelowThreshold(pct) == RatLess(pct, min_profit_percentage)

\* the try block of find_arbitrage_opportunities, given the comparison
FindBody(symbol, price_comparison) ==
    IF price_comparison.kind = "exc" THEN [kind |-> "exc"]
    ELSE IF price_comparison.kind = "none" THEN [kind |-> "list", v |-> <<>>]
    ELSE IF BelowThreshold(price_comparison.price_difference_percentage)
         THEN [kind |-> "list", v |-> <<>>]
    ELSE [kind |-> "list", v |-> <<
            [symbol |-> symbol,
             buy_exchange |-> price_comparison.lowest_price.exchange,
             sell_exchange |-> price_comparison.highest_price.exchange,
             buy_price |-> price_comparison.lowest_price.price,
             sell_price |-> price_comparison.highest_price.price,
             profit_percentage |-> price_comparison.price_difference_percentage,
             profit_amount |-> price_comparison.price_difference] >>]

\* except Exception: log; return opportunities (still empty)
CatchEmptyList(r) == IF r.kind = "exc" THEN [kind |-> "list", v |-> <<>>] ELSE r

find_arbitrage_opportunities(symbol, price_comparison) ==
    CatchEmptyList(FindBody(symbol, price_comparison))

\* mutant: an item goes before the items of equal key (not stable)
RECURSIVE InsertDesc_unstable(_, _)
InsertDesc_unstable(sorted, x) ==
    IF sorted = <<>> THEN <<x>>
    ELSE IF ~RatLess(x.profit_percentage, Head(sorted).profit_percentage)
         THEN <<x>> \o sorted
         ELSE <<Head(sorted)>> \o InsertDesc_unstable(Tail(sorted), x)

\* list.sort(key=lambda x: x.profit_percentage, reverse=True): stable
RECURSIVE InsertDesc(_, _)
InsertDesc(sorted, x) ==
    IF sorted = <<>> THEN <<x>>
    ELSE IF RatLess(Head(sorted).profit_percentage, x.profit_percentage)
         THEN <<x>> \o sorted
         ELSE <<Head(sorted)>> \o InsertDesc(Tail(sorted), x)

RECURSIVE SortDesc(_, _)
SortDesc(list, acc) ==
    IF list = <<>> THEN acc ELSE SortDesc(Tail(list), InsertDesc(acc, Head(list)))

\* mutant: all_opportunities = result instead of extend(result)
RECURSIVE ExtendAll_assign(_, _, _)
ExtendAll_assign(results, i, all_opportunities) ==
    IF i > Len(results) THEN all_opportunities
    ELSE ExtendAll_assign(results, i + 1,
            IF results[i].kind = "exc" THEN all_opportunities ELSE results[i].v)

\* the loop over enumerate(results) of get_all_arbitrage_opportunities
RECURSIVE ExtendAll(_, _, _)
ExtendAll(results, i, all_opportunities) ==
    IF i > Len(results) THEN all_opportunities
    ELSE ExtendAll(results, i + 1,
            IF results[i].kind = "exc" THEN all_opportunities
            ELSE all_opportunities \o results[i].v)

\* what get_all_arbitrage_opportunities returns from the gathered results
get_all_arbitrage_opportunities(results) ==
    [kind |-> "list", v |-> SortDesc(ExtendAll(results, 1, <<>>), <<>>)]

\* mutant: 'if price_value:' in place of 'if price_value is not None:'
SymbolPrices_truthy(symbol, dres) ==
    IF dres.kind = "exc" THEN <<>>
    ELSE SelectSeq(PriceObjects(symbol, dres.v, 1), LAMBDA pr : pr.price # 0)

\* one iteration of the loop of PriceMonitorService.get_all_prices:
\* all_prices[symbol], given what the manager call produced
SymbolPrices(symbol, dres) ==
    IF dres.kind = "exc" THEN <<>> ELSE PriceObjects(symbol, dres.v, 1)

\* ------------------------------------------------------------------------
\* State
\* ------------------------------------------------------------------------

VARIABLES
    exchanges,     \* ExchangeManager.exchanges: the keys, in insertion order
    initialized,   \* ExchangeManager._initialized
    client,        \* BaseExchangeClient.client of each adapter: "none", "open",
                   \* or "closed" (aclose() called, still referenced)
    made,          \* clients each adapter has created so far (2: two or more)
    acloses,       \* aclose() calls made on the client each adapter created last
    closer,        \* the ExchangeManager.close_all call
    op,            \* the request being served: [name, pc]
    result,        \* what the request returned
    frame,         \* the ExchangeManager.get_all_prices calls, one per slot
    task,          \* the get_price tasks gathered by each call
    svc,           \* PriceMonitorService's work on each slot's symbol
    active_connections,  \* api.prices.active_connections
    handler,       \* the websocket handler of each websocket
    broadcast      \* the broadcast_message call

\* the state of the websocket layer
sockets == <<active_connections, handler, broadcast>>

vars == <<min_profit_percentage, exchanges, initialized, client, made, acloses, closer,
          op, result, frame, task, svc, sockets>>

MANAGER == "ExchangeManager.get_all_prices"

COMPARE == "get_price_comparison"

FIND == "find_arbitrage_opportunities"

FIND_ALL == "get_all_arbitrage_opportunities"

MONITOR == "PriceMonitorService.get_all_prices"

COMPARE_PRICES == "compare_prices"

SHUTDOWN == "shutdown_event"

NoResult == [kind |-> "-"]

NoClient == NetFail("no_client")

\* client.get on a client whose aclose() was called raises RuntimeError
ClosedClient == NetFail("client_closed")

IdleFrame == [pc |-> "idle", symbol |-> "-", exchange_names |-> <<>>, prices |-> <<>>]

\* a get_price call not made yet; cid: which of the adapter's clients the
\* call uses (0: none), cut: that client has been closed while the call waits
IdleTask == [st |-> "idle", resp |-> NoResp, res |-> None, calls |-> 0,
             cid |-> 0, cut |-> FALSE]

\* no close_all call is running
IdleCloser == [pc |-> "idle", i |-> 0, had |-> {}, closed |-> {}]

IdleSvc == [st |-> "idle", comparison |-> NoResult, opportunities |-> NoResult,
            prices |-> <<>>]

\* the websockets that clients may open
WebSockets == {"w1", "w2"}

\* no websocket handler runs for a websocket that was not opened
\* (pc: the await the handler is at; waited: how long the sleep of the cycle
\* lasted; sends: the updates sent in the cycle; data: what is being sent)
IdleHandler == [pc |-> "none", kind |-> "none", peer |-> "none",
                data |-> None, waited |-> 0, sends |-> 0]

\* no broadcast_message call is running (i: the elements the loop over
\* active_connections has taken; target: the connection being sent to;
\* attempted: the connections send_text was called on; at_call:
\* active_connections when the call began)
IdleBroadcast == [pc |-> "idle", i |-> 0, target |-> "none",
                  disconnected |-> <<>>, attempted |-> <<>>, at_call |-> <<>>]

\* the module-level objects as constructed: exchange_manager with an empty
\* registry, adapters without client, a service with threshold min_profit
Constructed(min_profit) ==
    /\ min_profit_percentage = min_profit
    /\ exchanges = <<>>
    /\ initialized = FALSE
    /\ client = [a \in Adapters |-> "none"]
    /\ made = [a \in Adapters |-> 0]
    /\ acloses = [a \in Adapters |-> 0]
    /\ closer = IdleCloser
    /\ op = [name |-> "idle", pc |-> "idle"]
    /\ result = NoResult
    /\ frame = [s \in Slots |-> IdleFrame]
    /\ task = [s \in Slots |-> [a \in Adapters |-> IdleTask]]
    /\ svc = [s \in Slots |-> IdleSvc]
    /\ active_connections = <<>>
    /\ handler = [w \in WebSockets |-> IdleHandler]
    /\ broadcast = IdleBroadcast

\* price_monitor = PriceMonitorService()
Init == Constructed(DefaultMinProfit)

Range(seq) == {seq[i] : i \in 1..Len(seq)}

\* ------------------------------------------------------------------------
\* ExchangeManager.get_all_prices: entry, tasks, return
\* ------------------------------------------------------------------------

\* mutant: only the first adapter's call is issued before the await
IssueTasks_first_only(reg) ==
    [a \in Adapters |-> IF reg # <<>> /\ a = reg[1] THEN [IdleTask EXCEPT !.st = "sched"]
                        ELSE IdleTask]

\* tasks.append(client.get_price(symbol)); exchange_names.append(name)
\* for every item of self.exchanges, then asyncio.gather schedules the tasks
IssueTasks(reg) ==
    [a \in Adapters |-> IF a \in Range(reg) THEN [IdleTask EXCEPT !.st = "sched"]
                        ELSE IdleTask]

\* mutant: an empty registry makes the call fail
EnterFrame_raise_if_empty(symbol, reg) ==
    IF reg = <<>>
    THEN [pc |-> "raised", symbol |-> symbol, exchange_names |-> <<>>, prices |-> <<>>]
    ELSE [pc |-> "gather", symbol |-> symbol, exchange_names |-> reg, prices |-> <<>>]

\* the frame of a call that reached the await, or returned {} at once
EnterFrame(symbol, reg) ==
    IF reg = <<>>
    THEN [pc |-> "returned", symbol |-> symbol, exchange_names |-> <<>>, prices |-> <<>>]
    ELSE [pc |-> "gather", symbol |-> symbol, exchange_names |-> reg, prices |-> <<>>]

\* ExchangeManager.get_all_prices from its first line to the await
EnterManager(s, symbol, failsAll, failsEach) ==
    LET reg == initialize_exchanges(exchanges, initialized, failsAll, failsEach) IN
    /\ exchanges' = reg
    /\ initialized' = TRUE
    /\ frame' = [frame EXCEPT ![s] = EnterFrame(symbol, reg)]
    /\ task' = [task EXCEPT ![s] = IF reg = <<>> THEN @ ELSE IssueTasks(reg)]

\* the tasks are started in the order gather scheduled them
MayStart(s, a) ==
    /\ frame[s].pc = "gather"
    /\ task[s][a].st = "sched"
    /\ \A i \in 1..Len(frame[s].exchange_names) :
          LET b == frame[s].exchange_names[i] IN
          (\E j \in 1..Len(frame[s].exchange_names) :
              frame[s].exchange_names[j] = a /\ i < j) => task[s][b].st # "sched"

\* mutant: a client is created on every call
Creates_always(cl, created) == created

\* if self.client is None: self.client = httpx.AsyncClient(timeout=10.0),
\* which succeeds (created) or raises
Creates(cl, created) == cl = "none" /\ created

\* BaseExchangeClient._get_client: the client afterwards, created if absent
\* and if httpx.AsyncClient(...) did not raise
get_client(cl, created) == IF Creates(cl, created) THEN "open" ELSE cl

\* get_price from its first line to the await of client.get: _get_client,
\* then the request is sent; without a client it returns None at once, and
\* so it does when the client it holds has been closed
TaskStart(s, a, created) ==
    /\ MayStart(s, a)
    /\ LET cl == get_client(client[a], created) IN
       /\ client' = [client EXCEPT ![a] = cl]
       /\ made' = IF Creates(client[a], created)
                  THEN [made EXCEPT ![a] = IF @ < 2 THEN @ + 1 ELSE @] ELSE made
       /\ acloses' = IF Creates(client[a], created)
                     THEN [acloses EXCEPT ![a] = 0] ELSE acloses
       /\ task' = [task EXCEPT ![s][a] =
             CASE cl = "none" ->
                    [@ EXCEPT !.st = "done", !.resp = NoClient,
                       !.res = get_price(a, FALSE, frame[s].symbol, NoClient),
                       !.calls = @ + 1]
               [] cl = "closed" ->
                    [@ EXCEPT !.st = "done", !.resp = ClosedClient,
                       !.res = get_price(a, TRUE, frame[s].symbol, ClosedClient),
                       !.calls = @ + 1, !.cid = made'[a]]
               [] OTHER -> [@ EXCEPT !.st = "inflight", !.calls = @ + 1,
                                     !.cid = made'[a]]]
    /\ UNCHANGED <<sockets, min_profit_percentage, closer, exchanges, initialized, op, result,
                   frame, svc>>

\* the upstream answers (or the call fails) and get_price runs to its return
TaskComplete(s, a, resp) ==
    /\ frame[s].pc = "gather"
    /\ task[s][a].st = "inflight"
    /\ task' = [task EXCEPT ![s][a] =
          [@ EXCEPT !.st = "done", !.resp = resp, !.cut = FALSE,
                    !.res = get_price(a, TRUE, frame[s].symbol, resp)]]
    /\ UNCHANGED <<sockets, made, min_profit_percentage, closer, acloses, exchanges, initialized, client, op, result, frame, svc>>

\* mutant: the client is created without a timeout
ClientTimeout_unset == {}

\* httpx.AsyncClient(timeout=10.0): a request that gets no answer ends with
\* a timeout exception
ClientTimeout == {NetFail("timeout")}

\* the timeout of the client ends the request of task a
TaskTimeout(s, a) == \E resp \in ClientTimeout : TaskComplete(s, a, resp)

\* asyncio.gather is done when every task is
AllDone(s) ==
    /\ frame[s].pc = "gather"
    /\ \A a \in Range(frame[s].exchange_names) : task[s][a].st = "done"

\* mutant: the call returns what the tasks of the first slot produced
Returned_shared(s) == ExchangeManager_get_all_prices(frame[s].exchange_names, task[1])

\* the dict the call in slot s returns
Returned(s) == ExchangeManager_get_all_prices(frame[s].exchange_names, task[s])

PcOf(r) == IF r.kind = "exc" THEN "raised" ELSE "returned"

\* the frame of slot s once the call has ended with dres
LeftFrame(s, dres) ==
    [frame[s] EXCEPT !.pc = PcOf(dres),
                     !.prices = IF dres.kind = "exc" THEN <<>> ELSE dres.v]

\* the call in slot s ends (the task records stay as the trace of the call)
LeaveManager(s, dres) ==
    /\ frame' = [frame EXCEPT ![s] = LeftFrame(s, dres)]
    /\ UNCHANGED task

\* ------------------------------------------------------------------------
\* Requests
\* ------------------------------------------------------------------------

\* GET /prices/{symbol}: exchange_manager.get_all_prices(symbol)
CallManager(symbol, failsAll, failsEach) ==
    /\ op.name = "idle"
    /\ EnterManager(1, symbol, failsAll, failsEach)
    /\ op' = [name |-> MANAGER, pc |-> IF exchanges' = <<>> THEN "returned" ELSE "running"]
    /\ result' = IF exchanges' = <<>> THEN [kind |-> "dict", v |-> <<>>] ELSE result
    /\ UNCHANGED <<sockets, made, min_profit_percentage, closer, acloses, client, svc>>

ManagerReturn ==
    /\ op = [name |-> MANAGER, pc |-> "running"]
    /\ AllDone(1)
    /\ LeaveManager(1, Returned(1))
    /\ result' = Returned(1)
    /\ op' = [op EXCEPT !.pc = PcOf(Returned(1))]
    /\ UNCHANGED <<sockets, made, min_profit_percentage, closer, acloses, exchanges, initialized, client, svc>>

\* get_price_comparison and find_arbitrage_opportunities once the manager
\* call of slot s has returned d
SvcDone(symbol, d) ==
    LET cmp == get_price_comparison(symbol, d) IN
    [st |-> "done", comparison |-> cmp,
     opportunities |-> find_arbitrage_opportunities(symbol, cmp), prices |-> <<>>]

\* what a manager call that ended without awaiting handed to its caller
Ended(fr) ==
    IF fr.pc = "raised" THEN [kind |-> "exc"] ELSE [kind |-> "dict", v |-> fr.prices]

\* price_monitor.get_price_comparison(symbol): to the await of the manager's
\* gather, or to the end if the manager returned at once
CallComparison(symbol, failsAll, failsEach) ==
    /\ op.name = "idle"
    /\ EnterManager(1, symbol, failsAll, failsEach)
    /\ IF frame'[1].pc = "gather"
       THEN /\ op' = [name |-> COMPARE, pc |-> "running"]
            /\ svc' = [svc EXCEPT ![1] = [@ EXCEPT !.st = "waiting"]]
            /\ UNCHANGED result
       ELSE LET cmp == get_price_comparison(symbol, Ended(frame'[1])) IN
            /\ svc' = [svc EXCEPT ![1] = [@ EXCEPT !.st = "done", !.comparison = cmp]]
            /\ result' = cmp
            /\ op' = [name |-> COMPARE, pc |-> PcOf(cmp)]
    /\ UNCHANGED <<sockets, made, min_profit_percentage, closer, acloses, client>>

ComparisonReturn ==
    /\ op = [name |-> COMPARE, pc |-> "running"]
    /\ AllDone(1)
    /\ LeaveManager(1, Returned(1))
    /\ LET cmp == get_price_comparison(frame[1].symbol, Returned(1)) IN
       /\ svc' = [svc EXCEPT ![1] = [@ EXCEPT !.st = "done", !.comparison = cmp]]
       /\ result' = cmp
       /\ op' = [op EXCEPT !.pc = PcOf(cmp)]
    /\ UNCHANGED <<sockets, made, min_profit_percentage, closer, acloses, exchanges, initialized, client>>

\* raise HTTPException(status_code=status, ...)
HTTPException(status) == [kind |-> "http_exc", status |-> status]

\* the try block of compare_prices, given what the awaited
\* price_monitor.get_price_comparison(symbol) produced
ComparePricesBody(cmp) ==
    CASE cmp.kind = "exc" -> [kind |-> "exc"]
      [] cmp.kind = "none" -> HTTPException(404)
      [] OTHER -> [kind |-> "ok", body |-> cmp]

\* mutant: no 'except HTTPException: raise' before the catch-all
ComparePricesHandlers_catch_all(r) ==
    IF r.kind \in {"http_exc", "exc"} THEN HTTPException(500) ELSE r

\* except HTTPException: raise / except Exception: raise HTTPException(500)
ComparePricesHandlers(r) ==
    CASE r.kind = "http_exc" -> r
      [] r.kind = "exc" -> HTTPException(500)
      [] OTHER -> r

\* the response the framework sends for what the handler returned or raised
HttpResponse(r) ==
    CASE r.kind = "ok" -> [kind |-> "http", status |-> 200, body |-> r.body]
      [] r.kind = "http_exc" -> [kind |-> "http", status |-> r.status, body |-> NoResult]
      [] OTHER -> [kind |-> "http", status |-> 500, body |-> NoResult]

\* GET /compare/{symbol}
compare_prices(cmp) == HttpResponse(ComparePricesHandlers(ComparePricesBody(cmp)))

\* compare_prices(symbol): to the await of the manager's gather, or to the
\* end if the manager returned at once
CallComparePrices(symbol, failsAll, failsEach) ==
    /\ op.name = "idle"
    /\ EnterManager(1, symbol, failsAll, failsEach)
    /\ IF frame'[1].pc = "gather"
       THEN /\ op' = [name |-> COMPARE_PRICES, pc |-> "running"]
            /\ svc' = [svc EXCEPT ![1] = [@ EXCEPT !.st = "waiting"]]
            /\ UNCHANGED result
       ELSE LET cmp == get_price_comparison(symbol, Ended(frame'[1])) IN
            /\ svc' = [svc EXCEPT ![1] = [@ EXCEPT !.st = "done", !.comparison = cmp]]
            /\ result' = compare_prices(cmp)
            /\ op' = [name |-> COMPARE_PRICES, pc |-> "returned"]
    /\ UNCHANGED <<sockets, made, min_profit_percentage, closer, acloses, client>>

ComparePricesReturn ==
    /\ op = [name |-> COMPARE_PRICES, pc |-> "running"]
    /\ AllDone(1)
    /\ LeaveManager(1, Returned(1))
    /\ LET cmp == get_price_comparison(frame[1].symbol, Returned(1)) IN
       /\ svc' = [svc EXCEPT ![1] = [@ EXCEPT !.st = "done", !.comparison = cmp]]
       /\ result' = compare_prices(cmp)
       /\ op' = [op EXCEPT !.pc = "returned"]
    /\ UNCHANGED <<sockets, made, min_profit_percentage, closer, acloses, exchanges, initialized, client>>

\* price_monitor.find_arbitrage_opportunities(symbol)
CallFind(symbol, failsAll, failsEach) ==
    /\ op.name = "idle"
    /\ EnterManager(1, symbol, failsAll, failsEach)
    /\ IF frame'[1].pc = "gather"
       THEN /\ op' = [name |-> FIND, pc |-> "running"]
            /\ svc' = [svc EXCEPT ![1] = [@ EXCEPT !.st = "waiting"]]
            /\ UNCHANGED result
       ELSE /\ svc' = [svc EXCEPT ![1] = SvcDone(symbol, Ended(frame'[1]))]
            /\ result' = svc'[1].opportunities
            /\ op' = [name |-> FIND, pc |-> PcOf(svc'[1].opportunities)]
    /\ UNCHANGED <<sockets, made, min_profit_percentage, closer, acloses, client>>

FindReturn ==
    /\ op = [name |-> FIND, pc |-> "running"]
    /\ AllDone(1)
    /\ LeaveManager(1, Returned(1))
    /\ svc' = [svc EXCEPT ![1] = SvcDone(frame[1].symbol, Returned(1))]
    /\ result' = svc'[1].opportunities
    /\ op' = [op EXCEPT !.pc = PcOf(svc'[1].opportunities)]
    /\ UNCHANGED <<sockets, made, min_profit_percentage, closer, acloses, exchanges, initialized, client>>

\* price_monitor.get_all_arbitrage_opportunities(): one task per symbol
CallFindAll ==
    /\ op.name = "idle"
    /\ op' = [name |-> FIND_ALL, pc |-> "running"]
    /\ svc' = [s \in Slots |-> [IdleSvc EXCEPT !.st = "sched"]]
    /\ UNCHANGED <<sockets, made, min_profit_percentage, closer, acloses, exchanges, initialized, client, result, frame, task>>

\* the task of supported_symbols[s] runs to the await of the manager's gather
\* (or to its end if the manager returned at once)
SymbolTaskStart(s, failsAll, failsEach) ==
    /\ op = [name |-> FIND_ALL, pc |-> "running"]
    /\ svc[s].st = "sched"
    /\ \A t \in Slots : t < s => svc[t].st # "sched"
    /\ EnterManager(s, supported_symbols[s], failsAll, failsEach)
    /\ svc' = [svc EXCEPT ![s] =
          IF frame'[s].pc = "gather" THEN [@ EXCEPT !.st = "waiting"]
          ELSE SvcDone(supported_symbols[s], Ended(frame'[s]))]
    /\ UNCHANGED <<sockets, made, min_profit_percentage, closer, acloses, client, op, result>>

\* the task of supported_symbols[s] resumes after its gather and finishes
SymbolTaskResume(s) ==
    /\ op = [name |-> FIND_ALL, pc |-> "running"]
    /\ svc[s].st = "waiting"
    /\ AllDone(s)
    /\ LeaveManager(s, Returned(s))
    /\ svc' = [svc EXCEPT ![s] = SvcDone(frame[s].symbol, Returned(s))]
    /\ UNCHANGED <<sockets, made, min_profit_percentage, closer, acloses, exchanges, initialized, client, op, result>>

FindAllReturn ==
    /\ op = [name |-> FIND_ALL, pc |-> "running"]
    /\ \A s \in Slots : svc[s].st = "done"
    /\ result' = get_all_arbitrage_opportunities([s \in Slots |-> svc[s].opportunities])
    /\ op' = [op EXCEPT !.pc = "returned"]
    /\ UNCHANGED <<sockets, made, min_profit_percentage, closer, acloses, exchanges, initialized, client, frame, task, svc>>

\* all_prices as returned: one item per symbol, in the order of the loop
AllPrices(lists) == [i \in Slots |-> [k |-> supported_symbols[i], v |-> lists[i]]]

\* price_monitor.get_all_prices(): the symbols one after the other; the loop
\* runs to its end at once if the manager never awaits
CallMonitor(failsAll, failsEach) ==
    /\ op.name = "idle"
    /\ LET reg == initialize_exchanges(exchanges, initialized, failsAll, failsEach) IN
       /\ exchanges' = reg
       /\ initialized' = TRUE
       /\ IF EnterFrame(supported_symbols[1], reg).pc = "gather"
          THEN /\ frame' = [frame EXCEPT ![1] = EnterFrame(supported_symbols[1], reg)]
               /\ task' = [task EXCEPT ![1] = IssueTasks(reg)]
               /\ op' = [name |-> MONITOR, pc |-> "running"]
               /\ svc' = [svc EXCEPT ![1] = [@ EXCEPT !.st = "waiting"]]
               /\ UNCHANGED result
          ELSE /\ frame' = [s \in Slots |-> EnterFrame(supported_symbols[s], reg)]
               /\ UNCHANGED task
               /\ svc' = [s \in Slots |->
                     [svc[s] EXCEPT !.st = "done",
                         !.prices = SymbolPrices(supported_symbols[s], Ended(frame'[s]))]]
               /\ result' = [kind |-> "map",
                             v |-> AllPrices([s \in Slots |-> svc'[s].prices])]
               /\ op' = [name |-> MONITOR, pc |-> "returned"]
    /\ UNCHANGED <<sockets, made, min_profit_percentage, closer, acloses, client>>

\* all_prices[symbol] = prices, then the next symbol's manager call
MonitorNextSymbol(s) ==
    /\ op = [name |-> MONITOR, pc |-> "running"]
    /\ s + 1 \in Slots
    /\ AllDone(s)
    /\ frame' = [frame EXCEPT
          ![s] = LeftFrame(s, Returned(s)),
          ![s + 1] = EnterFrame(supported_symbols[s + 1], exchanges)]
    /\ task' = [task EXCEPT ![s + 1] = IssueTasks(exchanges)]
    /\ svc' = [svc EXCEPT
          ![s] = [@ EXCEPT !.st = "done",
                           !.prices = SymbolPrices(frame[s].symbol, Returned(s))],
          ![s + 1] = [@ EXCEPT !.st = "waiting"]]
    /\ UNCHANGED <<sockets, made, min_profit_percentage, closer, acloses, exchanges, initialized, client, op, result>>

\* the last symbol is done: return all_prices
MonitorReturn ==
    /\ op = [name |-> MONITOR, pc |-> "running"]
    /\ LET s == Len(supported_symbols) IN
       /\ AllDone(s)
       /\ LeaveManager(s, Returned(s))
       /\ svc' = [svc EXCEPT ![s] = [@ EXCEPT !.st = "done",
                     !.prices = SymbolPrices(frame[s].symbol, Returned(s))]]
       /\ result' = [kind |-> "map",
                     v |-> AllPrices([i \in Slots |-> svc'[i].prices])]
    /\ op' = [op EXCEPT !.pc = "returned"]
    /\ UNCHANGED <<sockets, made, min_profit_percentage, closer, acloses, exchanges, initialized, client>>

\* the caller has its answer; the next request may come
Reset ==
    /\ op.pc \in {"returned", "raised"}
    /\ op' = [name |-> "idle", pc |-> "idle"]
    /\ result' = NoResult
    /\ frame' = [s \in Slots |-> IdleFrame]
    /\ task' = [s \in Slots |-> [a \in Adapters |-> IdleTask]]
    /\ svc' = [s \in Slots |-> IdleSvc]
    /\ UNCHANGED <<sockets, made, min_profit_percentage, closer, acloses, exchanges, initialized, client>>

\* GET /prices/{symbol} served in slot s while other requests are served:
\* exchange_manager.get_all_prices(symbol) up to its await
RequestStart(s, symbol) ==
    /\ frame[s].pc = "idle"
    /\ EnterManager(s, symbol, {}, {})
    /\ UNCHANGED <<sockets, made, min_profit_percentage, closer, acloses, client, op, result,
                   svc>>

\* the get_all_prices call of slot s returns to the endpoint
RequestReturn(s) ==
    /\ AllDone(s)
    /\ LeaveManager(s, Returned(s))
    /\ UNCHANGED <<sockets, made, min_profit_percentage, closer, acloses, exchanges,
                   initialized, client, op, result, svc>>

\* the response of slot s has been sent
RequestDone(s) ==
    /\ frame[s].pc \in {"returned", "raised"}
    /\ frame' = [frame EXCEPT ![s] = IdleFrame]
    /\ task' = [task EXCEPT ![s] = [a \in Adapters |-> IdleTask]]
    /\ UNCHANGED <<sockets, made, min_profit_percentage, closer, acloses, exchanges,
                   initialized, client, op, result, svc>>

\* ------------------------------------------------------------------------
\* Teardown: BaseExchangeClient.close, ExchangeManager.close_all, shutdown
\* ------------------------------------------------------------------------

\* if self.client:
HoldsClient(cl) == cl # "none"

\* the position of the first adapter from position i on that holds a client
\* (close returns without awaiting for the others), or Len(reg) + 1
RECURSIVE NextHolding(_, _, _)
NextHolding(reg, cl, i) ==
    IF i > Len(reg) THEN i
    ELSE IF HoldsClient(cl[reg[i]]) THEN i
    ELSE NextHolding(reg, cl, i + 1)

\* mutant: close leaves the closed client in place
Released_keep(cl, a) == cl

\* self.client = None
Released(cl, a) == [cl EXCEPT ![a] = "none"]

\* the loop of close_all from position i on, the clients being cl: up to the
\* await of the next aclose(), or to the end of the loop
CloseFrom(i, cl, cr) ==
    LET j == NextHolding(exchanges, cl, i) IN
    IF j > Len(exchanges)
    THEN /\ client' = cl
         /\ acloses' = acloses
         /\ task' = task
         /\ closer' = [cr EXCEPT !.pc = "done", !.i = 0]
    ELSE /\ client' = [cl EXCEPT ![exchanges[j]] = "closed"]
         /\ task' = [s \in Slots |-> [a \in Adapters |->
                       IF a = exchanges[j] /\ task[s][a].st = "inflight"
                       THEN [task[s][a] EXCEPT !.cut = TRUE] ELSE task[s][a]]]
         /\ acloses' = [acloses EXCEPT ![exchanges[j]] = IF @ < 2 THEN @ + 1 ELSE @]
         /\ closer' = [cr EXCEPT !.pc = "closing", !.i = j,
                                 !.closed = @ \cup {exchanges[j]}]

\* mutant: the error of the interrupted request leaves get_price
ReadError_uncaught == Fault

\* the request of a call whose client was closed under it fails with a
\* transport error, raised by await client.get(...)
ReadError == NetFail("read_error")

\* the request in flight of task a fails because its client was closed
TaskAborted(s, a) ==
    /\ task[s][a].cut
    /\ TaskComplete(s, a, ReadError)

\* exchange_manager.close_all() is called
CallCloseAll ==
    /\ closer.pc = "idle"
    /\ CloseFrom(1, client,
          [IdleCloser EXCEPT !.had = {a \in Range(exchanges) : HoldsClient(client[a])}])
    /\ UNCHANGED <<sockets, made, min_profit_percentage, exchanges, initialized, op, result, frame,
                   svc>>

\* an aclose() has completed: the adapter drops its client, the loop goes on
CloseResume ==
    /\ closer.pc = "closing"
    /\ CloseFrom(closer.i + 1, Released(client, exchanges[closer.i]), closer)
    /\ UNCHANGED <<sockets, made, min_profit_percentage, exchanges, initialized, op, result, frame,
                   svc>>

\* close_all has returned to its caller
CloseAllReturn ==
    /\ closer.pc = "done"
    /\ closer' = IdleCloser
    /\ UNCHANGED <<sockets, made, min_profit_percentage, exchanges, initialized, client, acloses, op,
                   result, frame, task, svc>>

\* main.shutdown_event: two log lines
ShutdownEvent ==
    /\ op.name = "idle"
    /\ closer.pc = "idle"
    /\ op' = [name |-> SHUTDOWN, pc |-> "returned"]
    /\ UNCHANGED <<sockets, made, min_profit_percentage, exchanges, initialized, client, acloses,
                   closer, result, frame, task, svc>>

\* ------------------------------------------------------------------------
\* Websockets: websocket_prices, websocket_arbitrage, broadcast_message
\* ------------------------------------------------------------------------

\* await asyncio.sleep(30)
PushInterval == 30

\* the two websocket endpoints
Kinds == {"prices", "arbitrage"}

\* list.remove(x): the list without the first occurrence of x (x is in it)
Remove(list, x) ==
    LET i == CHOOSE j \in 1..Len(list) :
                 list[j] = x /\ \A k \in 1..(j - 1) : list[k] # x
    IN SubSeq(list, 1, i - 1) \o SubSeq(list, i + 1, Len(list))

\* if websocket in active_connections: active_connections.remove(websocket)
RemoveIfPresent(list, x) == IF x \in Range(list) THEN Remove(list, x) ELSE list

\* websocket.send_json calls json.dumps on the message: it takes dicts,
\* lists and strings, and raises TypeError on a Price or an
\* ArbitrageOpportunity object
Serializable(d) ==
    IF d.kind = "map" THEN \A i \in 1..Len(d.v) : d.v[i].v = <<>>
    ELSE d.v = <<>>

\* a client opens /ws/prices or /ws/arbitrage: accept, append, and the
\* first sleep
Connect(w, kind) ==
    /\ handler[w].pc = "none"
    /\ active_connections' = Append(active_connections, w)
    /\ handler' = [handler EXCEPT ![w] =
          [IdleHandler EXCEPT !.pc = "sleep", !.kind = kind, !.peer = "connected"]]
    /\ UNCHANGED broadcast

\* the client of w goes away; the handler, which never receives, is not told
PeerLeaves(w) ==
    /\ handler[w].peer = "connected"
    /\ handler[w].pc \in {"sleep", "fetch", "send"}
    /\ handler' = [handler EXCEPT ![w].peer = "gone"]
    /\ UNCHANGED <<active_connections, broadcast>>

\* the sleep is over: the handler asks price_monitor for the data
HandlerWakes(w) ==
    /\ handler[w].pc = "sleep"
    /\ handler' = [handler EXCEPT ![w] =
          [@ EXCEPT !.pc = "fetch", !.waited = PushInterval, !.sends = 0]]
    /\ UNCHANGED <<active_connections, broadcast>>

\* price_monitor has returned d: send_json serialises the message and
\* awaits the send, or raises TypeError, which except Exception handles
HandlerFetched(w, d) ==
    /\ handler[w].pc = "fetch"
    /\ IF Serializable(d)
       THEN /\ handler' = [handler EXCEPT ![w] = [@ EXCEPT !.pc = "send", !.data = d]]
            /\ UNCHANGED active_connections
       ELSE /\ handler' = [handler EXCEPT ![w] = [@ EXCEPT !.pc = "exited"]]
            /\ active_connections' = RemoveIfPresent(active_connections, w)
    /\ UNCHANGED broadcast

\* how the send to websocket w may end: a peer that is there gets the
\* message; towards a peer that went away the send may still go through,
\* raise WebSocketDisconnect, or raise another exception
SendOutcomes(w) ==
    IF handler[w].peer = "connected" THEN {"sent"}
    ELSE {"sent", "disconnect", "error"}

\* the send of the handler of w has ended: the next cycle, or one of the
\* two except clauses (the first removes without testing membership)
HandlerSent(w, outcome) ==
    /\ handler[w].pc = "send"
    /\ outcome \in SendOutcomes(w)
    /\ CASE outcome = "sent" ->
             /\ handler' = [handler EXCEPT ![w] =
                   [@ EXCEPT !.pc = "sleep", !.sends = @ + 1, !.waited = 0,
                             !.data = None]]
             /\ UNCHANGED active_connections
         [] outcome = "disconnect" ->
             IF w \in Range(active_connections)
             THEN /\ active_connections' = Remove(active_connections, w)
                  /\ handler' = [handler EXCEPT ![w] =
                        [@ EXCEPT !.pc = "exited", !.data = None]]
             ELSE /\ UNCHANGED active_connections
                  /\ handler' = [handler EXCEPT ![w] =
                        [@ EXCEPT !.pc = "raised", !.data = None]]
         [] OTHER ->
             /\ active_connections' = RemoveIfPresent(active_connections, w)
             /\ handler' = [handler EXCEPT ![w] =
                   [@ EXCEPT !.pc = "exited", !.data = None]]
    /\ UNCHANGED broadcast

\* for connection in disconnected: active_connections.remove(connection),
\* which raises ValueError when the connection is not in the list
RECURSIVE RemoveAll(_, _)
RemoveAll(list, disconnected) ==
    IF disconnected = <<>> THEN [pc |-> "returned", v |-> list]
    ELSE IF Head(disconnected) \notin Range(list) THEN [pc |-> "raised", v |-> list]
    ELSE RemoveAll(Remove(list, Head(disconnected)), Tail(disconnected))

\* broadcast_message(message): to the await of the first send_text, or to
\* the end if there is no connection
BroadcastCall ==
    /\ broadcast.pc = "idle"
    /\ broadcast' =
          IF active_connections = <<>>
          THEN [IdleBroadcast EXCEPT !.pc = "returned"]
          ELSE [IdleBroadcast EXCEPT !.pc = "sending", !.i = 1,
                                     !.target = active_connections[1],
                                     !.attempted = <<active_connections[1]>>,
                                     !.at_call = active_connections]
    /\ UNCHANGED <<active_connections, handler>>

\* whether send_text to connection w may succeed, and whether it may fail:
\* it fails on a websocket whose handler has returned, and may go either
\* way when the peer went away
SendTextOutcomes(w) ==
    IF handler[w].pc \in {"exited", "raised"} THEN {FALSE}
    ELSE IF handler[w].peer = "connected" THEN {TRUE}
    ELSE {TRUE, FALSE}

\* mutant: the loop ends at the first send that fails
NextIndex_stop(i, ok, list) == IF ok THEN i + 1 ELSE Len(list) + 1

\* the list iterator of 'for connection in active_connections' after it
\* gave i elements: it gives list[i + 1] next, of the list as it is then
NextIndex(i, ok, list) == i + 1

\* the send_text to broadcast.target has ended (except: remembers the
\* connection); the loop goes to the await of the next send, or ends and
\* the connections that failed are removed
BroadcastSent(ok) ==
    /\ broadcast.pc = "sending"
    /\ ok \in SendTextOutcomes(broadcast.target)
    /\ LET disconnected == IF ok THEN broadcast.disconnected
                           ELSE Append(broadcast.disconnected, broadcast.target)
           j == NextIndex(broadcast.i, ok, active_connections)
           end == RemoveAll(active_connections, disconnected)
       IN
       IF j <= Len(active_connections)
       THEN /\ broadcast' = [broadcast EXCEPT
                  !.i = j, !.target = active_connections[j],
                  !.attempted = Append(@, active_connections[j]),
                  !.disconnected = disconnected]
            /\ UNCHANGED active_connections
       ELSE /\ broadcast' = [broadcast EXCEPT
                  !.pc = end.pc, !.i = j, !.target = "none",
                  !.disconnected = disconnected]
            /\ active_connections' = end.v
    /\ UNCHANGED handler

\* the caller of broadcast_message goes on
BroadcastReturn ==
    /\ broadcast.pc \in {"returned", "raised"}
    /\ broadcast' = IdleBroadcast
    /\ UNCHANGED <<active_connections, handler>>

\* what exchange_manager.get_all_prices may hand to the service while a
\* handler waits for price_monitor: no quote at all, or two quotes 1 percent
\* apart
SocketDicts ==
    {[kind |-> "dict",
      v |-> [i \in 1..Len(RegistryOrder) |-> [k |-> RegistryOrder[i], v |-> q[i]]]] :
        q \in {<<None, None, None>>, <<Value(200), Value(202), None>>}}

\* price_monitor.get_all_prices() for a /ws/prices handler,
\* price_monitor.get_all_arbitrage_opportunities() for a /ws/arbitrage
\* handler, the manager answering dres for every symbol
FetchedData(kind, dres) ==
    IF kind = "prices"
    THEN [kind |-> "map",
          v |-> AllPrices([s \in Slots |-> SymbolPrices(supported_symbols[s], dres)])]
    ELSE get_all_arbitrage_opportunities(
            [s \in Slots |->
                find_arbitrage_opportunities(supported_symbols[s],
                    get_price_comparison(supported_symbols[s], dres))])

\* the call of price_monitor a handler of this kind makes
FetchOf(kind) == IF kind = "prices" THEN MONITOR ELSE FIND_ALL

\* the handler of w is at its await of price_monitor, which is not running yet
AboutToFetch(kind) ==
    /\ op.name = "idle"
    /\ \E w \in WebSockets : handler[w].pc = "fetch" /\ handler[w].kind = kind

\* the call of price_monitor made by the handler of w has returned: the
\* handler goes on with what it returned
PushFetched(w) ==
    /\ op = [name |-> FetchOf(handler[w].kind), pc |-> "returned"]
    /\ HandlerFetched(w, result)
    /\ op' = [name |-> "idle", pc |-> "idle"]
    /\ result' = NoResult
    /\ frame' = [s \in Slots |-> IdleFrame]
    /\ task' = [s \in Slots |-> [a \in Adapters |-> IdleTask]]
    /\ svc' = [s \in Slots |-> IdleSvc]
    /\ UNCHANGED <<min_profit_percentage, exchanges, initialized, client, made, acloses,
                   closer>>

\* everything but the websocket layer
service == <<min_profit_percentage, exchanges, initialized, client, made, acloses,
             closer, op, result, frame, task, svc>>

\* ------------------------------------------------------------------------
\* Specifications
\* ------------------------------------------------------------------------

\* the registry and the adapters, against every response shape
NextManager ==
    \/ \E symbol \in Symbols, failsAll \in SUBSET Adapters, failsEach \in SUBSET Adapters :
          CallManager(symbol, failsAll, failsEach)
    \/ \E s \in Slots, a \in Adapters, created \in BOOLEAN : TaskStart(s, a, created)
    \/ \E s \in Slots, a \in Adapters :
          \E resp \in DetailedResponses(a) \cup {Fault} : TaskComplete(s, a, resp)
    \/ ManagerReturn
    \/ Reset

SpecManager == Init /\ [][NextManager]_vars

\* the quotes of the worked example: 50000 and 50300, or a timeout
ScenarioResponses(a, symbol) ==
    {NetFail("timeout")}
    \cup {Http(200, "price", PairOf(a, symbol), p) : p \in {50000, 50300}}

\* what the upstream may answer to adapter a asked for symbol
Responses(a, symbol, mode) ==
    CASE mode = "faulty" -> FaultyResponses(a, symbol)
      [] mode = "scenario" -> ScenarioResponses(a, symbol)
      [] OTHER -> PlainResponses(a, symbol)

\* the adapters whose constructor may raise in _initialize_exchanges
NoFailure == {{}}

\* the price monitor service; fails: the sets of adapters whose constructor
\* may raise when the registry is initialised
ServiceNext(mode, fails) ==
    \/ \E symbol \in Symbols, failsAll \in fails, failsEach \in fails :
          CallComparison(symbol, failsAll, failsEach)
    \/ \E symbol \in Symbols, failsAll \in fails, failsEach \in fails :
          CallFind(symbol, failsAll, failsEach)
    \/ CallFindAll
    \/ \E failsAll \in fails, failsEach \in fails : CallMonitor(failsAll, failsEach)
    \/ \E s \in Slots, failsAll \in fails, failsEach \in fails :
          SymbolTaskStart(s, failsAll, failsEach)
    \/ \E s \in Slots, a \in Adapters : TaskStart(s, a, TRUE)
    \/ \E s \in Slots, a \in Adapters :
          \E resp \in Responses(a, frame[s].symbol, mode) : TaskComplete(s, a, resp)
    \/ ComparisonReturn
    \/ FindReturn
    \/ \E s \in Slots : SymbolTaskResume(s)
    \/ FindAllReturn
    \/ \E s \in Slots : MonitorNextSymbol(s)
    \/ MonitorReturn
    \/ Reset

\* every adapter call ends with a quote or with None
Next == ServiceNext("plain", NoFailure)

Spec == Init /\ [][Next]_vars

\* an adapter call may also raise
NextFaulty == ServiceNext("faulty", NoFailure)

SpecFaulty == Init /\ [][NextFaulty]_vars

\* one manager call after the other; a provider may answer or stay silent
NextLive ==
    \/ \E symbol \in Symbols : CallManager(symbol, {}, {})
    \/ \E s \in Slots, a \in Adapters : TaskStart(s, a, TRUE)
    \/ \E s \in Slots, a \in Adapters :
          \E resp \in ScenarioResponses(a, frame[s].symbol) : TaskComplete(s, a, resp)
    \/ \E s \in Slots, a \in Adapters : TaskTimeout(s, a)
    \/ ManagerReturn
    \/ Reset

\* the event loop runs every task that is ready, and the timer of every
\* request in flight fires; no provider is obliged to answer
Fairness ==
    /\ \A s \in Slots, a \in Adapters : WF_vars(TaskStart(s, a, TRUE))
    /\ \A s \in Slots, a \in Adapters : WF_vars(TaskTimeout(s, a))
    /\ WF_vars(ManagerReturn)

SpecLive == Init /\ [][NextLive]_vars /\ Fairness

\* the comparison endpoint, the adapters failing in every way
NextApi ==
    \/ \E symbol \in Symbols, failsAll \in SUBSET Adapters, failsEach \in SUBSET Adapters :
          CallComparePrices(symbol, failsAll, failsEach)
    \/ \E s \in Slots, a \in Adapters : TaskStart(s, a, TRUE)
    \/ \E s \in Slots, a \in Adapters :
          \E resp \in FaultyResponses(a, frame[s].symbol) : TaskComplete(s, a, resp)
    \/ ComparePricesReturn
    \/ Reset

SpecApi == Init /\ [][NextApi]_vars

\* PriceMonitorService(min_profit_percentage=...): 0.5 and 1.0
ScenarioThresholds == {Rat(1, 2), Rat(1, 1)}

\* a service constructed with either threshold
InitScenario == \E min_profit \in ScenarioThresholds : Constructed(min_profit)

\* the service with either threshold, the providers quoting 50000 or 50300
NextScenario == ServiceNext("scenario", NoFailure)

SpecScenario == InitScenario /\ [][NextScenario]_vars

\* the life of the process: manager calls and close_all calls in any
\* interleaving, then the shutdown event, after which nothing runs
NextLifecycle ==
    \/ \E symbol \in Symbols, failsAll \in SUBSET Adapters, failsEach \in SUBSET Adapters :
          CallManager(symbol, failsAll, failsEach)
    \/ \E s \in Slots, a \in Adapters, created \in BOOLEAN : TaskStart(s, a, created)
    \/ \E s \in Slots, a \in Adapters :
          \E resp \in ScenarioResponses(a, frame[s].symbol) : TaskComplete(s, a, resp)
    \/ \E s \in Slots, a \in Adapters : TaskAborted(s, a)
    \/ ManagerReturn
    \/ op.name # SHUTDOWN /\ Reset
    \/ op.name # SHUTDOWN /\ CallCloseAll
    \/ CloseResume
    \/ CloseAllReturn
    \/ ShutdownEvent

SpecLifecycle == Init /\ [][NextLifecycle]_vars

\* manager calls and close_all calls one after the other
NextTeardown ==
    \/ \E symbol \in Symbols, failsAll \in SUBSET Adapters, failsEach \in SUBSET Adapters :
          closer.pc = "idle" /\ CallManager(symbol, failsAll, failsEach)
    \/ \E s \in Slots, a \in Adapters, created \in BOOLEAN : TaskStart(s, a, created)
    \/ \E s \in Slots, a \in Adapters :
          \E resp \in ScenarioResponses(a, frame[s].symbol) : TaskComplete(s, a, resp)
    \/ ManagerReturn
    \/ Reset
    \/ op.name = "idle" /\ CallCloseAll
    \/ CloseResume
    \/ CloseAllReturn

SpecTeardown == Init /\ [][NextTeardown]_vars

\* the service over a registry whose adapters may fail to construct
NextDegraded == ServiceNext("scenario", SUBSET Adapters)

SpecDegraded == Init /\ [][NextDegraded]_vars

\* requests for prices served concurrently, each calling get_all_prices
NextConcurrent ==
    \/ \E s \in Slots, symbol \in Symbols : RequestStart(s, symbol)
    \/ \E s \in Slots, a \in Adapters, created \in BOOLEAN : TaskStart(s, a, created)
    \/ \E s \in Slots, a \in Adapters :
          \E resp \in ScenarioResponses(a, frame[s].symbol) : TaskComplete(s, a, resp)
    \/ \E s \in Slots : RequestReturn(s)
    \/ \E s \in Slots : RequestDone(s)

SpecConcurrent == Init /\ [][NextConcurrent]_vars

\* a handler may take a step: always, or only while no broadcast is
\* suspended in a send
MayRun(alone) == ~alone \/ broadcast.pc # "sending"

\* the websocket layer: handlers and broadcast_message calls; alone: the
\* broadcast runs without a handler taking a step in between
SocketsNext(alone) ==
    \/ \E w \in WebSockets, kind \in Kinds :
          MayRun(alone) /\ Connect(w, kind) /\ UNCHANGED service
    \/ \E w \in WebSockets : PeerLeaves(w) /\ UNCHANGED service
    \/ \E w \in WebSockets : MayRun(alone) /\ HandlerWakes(w) /\ UNCHANGED service
    \/ \E w \in WebSockets, dres \in SocketDicts :
          /\ MayRun(alone)
          /\ HandlerFetched(w, FetchedData(handler[w].kind, dres))
          /\ UNCHANGED service
    \/ \E w \in WebSockets, outcome \in {"sent", "disconnect", "error"} :
          MayRun(alone) /\ HandlerSent(w, outcome) /\ UNCHANGED service
    \/ BroadcastCall /\ UNCHANGED service
    \/ \E ok \in BOOLEAN : BroadcastSent(ok) /\ UNCHANGED service
    \/ BroadcastReturn /\ UNCHANGED service

\* the listeners of the push channel
PushListeners == {"w1"}

\* what the event loop does for a listener: the timer of its sleep, the
\* calls of price_monitor with their adapter requests, and its sends
PushProgress ==
    \/ \E w \in PushListeners : op.name = "idle" /\ HandlerWakes(w) /\ UNCHANGED service
    \/ AboutToFetch("prices") /\ CallMonitor({}, {})
    \/ AboutToFetch("arbitrage") /\ CallFindAll
    \/ \E s \in Slots : SymbolTaskStart(s, {}, {})
    \/ \E s \in Slots, a \in Adapters : TaskStart(s, a, TRUE)
    \/ \E s \in Slots, a \in Adapters :
          \E resp \in ScenarioResponses(a, frame[s].symbol) : TaskComplete(s, a, resp)
    \/ \E s \in Slots : SymbolTaskResume(s)
    \/ FindAllReturn
    \/ \E s \in Slots : MonitorNextSymbol(s)
    \/ MonitorReturn
    \/ \E w \in PushListeners : PushFetched(w)
    \/ \E w \in PushListeners, outcome \in {"sent", "disconnect", "error"} :
          HandlerSent(w, outcome) /\ UNCHANGED service

\* a listener of the push channel, the service and the providers behind it
NextPush ==
    \/ \E w \in PushListeners, kind \in Kinds : Connect(w, kind) /\ UNCHANGED service
    \/ \E w \in PushListeners : PeerLeaves(w) /\ UNCHANGED service
    \/ PushProgress

\* the event loop keeps running: the timer of a sleep fires, every request
\* to a provider ends (with an answer or with the timeout of the client),
\* every send ends
FairnessPush == WF_vars(PushProgress)

SpecPush == Init /\ [][NextPush]_vars /\ FairnessPush

\* broadcast_message run without interference
NextBroadcast == SocketsNext(TRUE)

SpecBroadcast == Init /\ [][NextBroadcast]_vars

\* handlers and broadcast_message in every interleaving
NextSockets == SocketsNext(FALSE)

SpecSockets == Init /\ [][NextSockets]_vars

\* ------------------------------------------------------------------------
\* Claims about ExchangeManager and the adapters (SpecManager)
\* ------------------------------------------------------------------------

ManagerEnded == op.name = MANAGER /\ op.pc \in {"returned", "raised"}

Failed(s) == {a \in Range(exchanges) : task[s][a].res.kind \in {"none", "exc"}}

Succeeded(s) == {a \in Range(exchanges) : task[s][a].res.kind = "value"}

\* C1: a get_all_prices call never raises; its mapping has exactly one key
\* per registered adapter; an adapter that succeeded with p is mapped to p and
\* an adapter that returned None or raised is mapped to None, whichever
\* subset failed.
C1_Isolation ==
    ManagerEnded =>
        /\ op.pc = "returned"
        /\ result.kind = "dict"
        /\ Len(result.v) = Len(exchanges)
        /\ DictKeys(result.v) = Range(exchanges)
        /\ \A a \in Succeeded(1) : DictGet(result.v, a) = Value(task[1][a].res.v)
        /\ \A a \in Failed(1) : DictGet(result.v, a) = None

\* a call where one adapter raised, one returned None and one gave a price
C1_Witness ==
    /\ op = [name |-> MANAGER, pc |-> "returned"]
    /\ \E a \in Failed(1), b \in Failed(1), c \in Succeeded(1) :
          /\ task[1][a].res.kind = "exc"
          /\ task[1][b].res.kind = "none"
          /\ DictGet(result.v, c).v = 201

\* C2: in the returned mapping the value under key k is what adapter k's own
\* get_price call produced (None if it raised), in every order of completion.
C2_KeyedAttribution ==
    (op = [name |-> MANAGER, pc |-> "returned"]) =>
        \A i \in 1..Len(result.v) :
            LET own == task[1][result.v[i].k] IN
            /\ own.st = "done"
            /\ result.v[i].v = (IF own.res.kind = "exc" THEN None ELSE own.res)

\* three adapters, three different prices, each under its own key
C2_Witness ==
    /\ op = [name |-> MANAGER, pc |-> "returned"]
    /\ Len(exchanges) = 3
    /\ task[1]["binance"].res = Value(202)
    /\ task[1]["coinbase"].res = Value(0)
    /\ task[1]["kraken"].res = Value(201)
    /\ DictGet(result.v, "kraken") = Value(201)

\* the failure conditions of an adapter call, read off the response
FailureCondition(a, symbol, resp) ==
    \/ resp.net \in {"no_client", "error", "timeout"}
    \/ /\ resp.net = "ok"
       /\ \/ resp.status < 200
          \/ resp.status > 299
          \/ resp.body \in {"not_json", "no_price", "bad_price", "no_result"}
          \/ a = "kraken" /\ resp.pair # KrakenSymbol(symbol)

\* C8: whenever an adapter call meets a failure condition (no client, network
\* error or timeout, non-success status, missing or malformed price field,
\* symbol absent from the response), get_price returns None; it never raises.
C8_AdapterFailureIsNone ==
    \A s \in Slots, a \in Adapters :
        task[s][a].st = "done" =>
            /\ FailureCondition(a, frame[s].symbol, task[s][a].resp)
                  => task[s][a].res = None
            /\ task[s][a].resp # Fault => task[s][a].res.kind # "exc"

\* three adapters failing in three different ways, all reported as None
C8_Witness ==
    /\ task[1]["binance"].st = "done" /\ task[1]["binance"].resp.net = "no_client"
    /\ task[1]["coinbase"].st = "done" /\ task[1]["coinbase"].resp.body = "bad_price"
    /\ task[1]["kraken"].st = "done" /\ task[1]["kraken"].resp.body = "price"
    /\ task[1]["kraken"].resp.pair # KrakenSymbol(frame[1].symbol)
    /\ \A a \in Adapters : task[1][a].res = None

\* C10: while a get_all_prices call waits, a get_price call has been issued
\* for every registered adapter and none twice; when it has returned, every
\* registered adapter's call was made exactly once and has completed.
C10_ConcurrentFanOut ==
    \A s \in Slots :
        /\ frame[s].pc = "gather" =>
              \A a \in Range(exchanges) :
                 task[s][a].st \in {"sched", "inflight", "done"} /\ task[s][a].calls <= 1
        /\ frame[s].pc = "returned" =>
              \A a \in Adapters :
                 IF a \in Range(exchanges)
                 THEN task[s][a].st = "done" /\ task[s][a].calls = 1
                 ELSE task[s][a].st = "idle" /\ task[s][a].calls = 0

\* all three calls in flight at the same time
C10_Witness ==
    /\ frame[1].pc = "gather"
    /\ Len(frame[1].exchange_names) = 3
    /\ \A a \in Adapters : task[1][a].st = "inflight" /\ task[1][a].calls = 1

\* ------------------------------------------------------------------------
\* Claims about PriceMonitorService (Spec)
\* ------------------------------------------------------------------------

\* the slots on which get_price_comparison has run to its end
Compared == {s \in Slots : op.name \in {COMPARE, FIND, FIND_ALL} /\ svc[s].st = "done"}

\* the providers that returned a price for the symbol of slot s
Responders(s) == {a \in Range(frame[s].exchange_names) : task[s][a].res.kind = "value"}

\* C3: with fewer than 2 providers returning a price, get_price_comparison
\* returns None, and it does not raise.
C3_FewerThanTwoIsAbsent ==
    /\ \A s \in Compared :
          Cardinality(Responders(s)) < 2 => svc[s].comparison = NoComparison
    /\ op.name = COMPARE => op.pc # "raised"

\* a comparison asked with exactly one provider answering
C3_Witness ==
    /\ op = [name |-> COMPARE, pc |-> "returned"]
    /\ Cardinality(Responders(1)) = 1
    /\ result = NoComparison

\* C4 (as claimed): with at least 2 providers returning a price,
\* get_price_comparison returns a PriceComparison with one Price per
\* responder, highest >= lowest, difference = highest - lowest and
\* percentage = (highest - lowest) / lowest * 100.
C4_TwoOrMoreGiveComparison ==
    \A s \in Compared :
        Cardinality(Responders(s)) >= 2 =>
            LET c == svc[s].comparison IN
            /\ c.kind = "cmp"
            /\ Len(c.prices) = Cardinality(Responders(s))
            /\ {c.prices[i].exchange : i \in 1..Len(c.prices)} = Responders(s)
            /\ \A i \in 1..Len(c.prices) :
                  /\ c.prices[i].price = task[s][c.prices[i].exchange].res.v
                  /\ c.prices[i].symbol = frame[s].symbol
            /\ c.highest_price.price >= c.lowest_price.price
            /\ c.price_difference = c.highest_price.price - c.lowest_price.price
            /\ c.lowest_price.price # 0
            /\ c.price_difference_percentage.num * c.lowest_price.price
                  = (c.highest_price.price - c.lowest_price.price) * 100
                       * c.price_difference_percentage.den

\* C5: find_arbitrage_opportunities returns the empty list exactly when the
\* comparison is absent or its percentage is strictly below
\* min_profit_percentage; otherwise (equality included) exactly one
\* opportunity: buy at the lowest, sell at the highest, profit_percentage and
\* profit_amount those of the comparison.
C5_Threshold ==
    \A s \in Slots :
        (op.name \in {FIND, FIND_ALL} /\ svc[s].st = "done") =>
            LET c == svc[s].comparison
                o == svc[s].opportunities
                below == c.price_difference_percentage.num * MinProfitDen
                            < MinProfitNum * c.price_difference_percentage.den
            IN
            /\ o.kind = "list"
            /\ (o.v = <<>>) <=> (c.kind = "none" \/ below)
            /\ o.v # <<>> =>
                  /\ Len(o.v) = 1
                  /\ o.v[1].symbol = frame[s].symbol
                  /\ o.v[1].buy_exchange = c.lowest_price.exchange
                  /\ o.v[1].buy_price = c.lowest_price.price
                  /\ o.v[1].sell_exchange = c.highest_price.exchange
                  /\ o.v[1].sell_price = c.highest_price.price
                  /\ o.v[1].profit_percentage = c.price_difference_percentage
                  /\ o.v[1].profit_amount = c.price_difference

\* the percentage equals the threshold exactly: one opportunity
C5_Witness ==
    /\ op = [name |-> FIND, pc |-> "returned"]
    /\ svc[1].comparison.kind = "cmp"
    /\ svc[1].comparison.price_difference_percentage.num * MinProfitDen
          = MinProfitNum * svc[1].comparison.price_difference_percentage.den
    /\ Len(result.v) = 1
    /\ result.v[1].buy_price = 200 /\ result.v[1].sell_price = 201

SymbolIndex(symbol) == CHOOSE i \in 1..Len(supported_symbols) : supported_symbols[i] = symbol

\* C6: the list get_all_arbitrage_opportunities returns is ordered by
\* profit_percentage, non-increasing, and opportunities of equal percentage
\* come in the order of their symbols in supported_symbols.
C6_SortedStable ==
    (op = [name |-> FIND_ALL, pc |-> "returned"]) =>
        \A i \in 1..Len(result.v), j \in 1..Len(result.v) :
            i < j =>
               LET pi == result.v[i].profit_percentage
                   pj == result.v[j].profit_percentage
               IN /\ pi.num * pj.den >= pj.num * pi.den
                  /\ pi.num * pj.den = pj.num * pi.den =>
                        SymbolIndex(result.v[i].symbol) < SymbolIndex(result.v[j].symbol)

\* two opportunities of equal percentage, the first symbol's first
C6_Witness ==
    /\ op = [name |-> FIND_ALL, pc |-> "returned"]
    /\ Len(result.v) = 2
    /\ result.v[1].symbol = supported_symbols[1]
    /\ result.v[2].symbol = supported_symbols[2]
    /\ result.v[1].profit_percentage = result.v[2].profit_percentage

\* the processing of slot s met an error: the comparison divided by a
\* lowest price of zero (ZeroDivisionError)
SymbolFailed(s) ==
    Cardinality(Responders(s)) >= 2 /\ \E a \in Responders(s) : task[s][a].res.v = 0

\* C7: get_all_arbitrage_opportunities does not raise, and its list holds
\* exactly the opportunities found for the symbols whose processing gave a
\* list, whatever happened to the other symbols.
C7_SymbolIsolation ==
    (op.name = FIND_ALL /\ op.pc # "running") =>
        /\ op.pc = "returned"
        /\ result.kind = "list"
        /\ \A s \in Slots :
              svc[s].opportunities.kind = "list" =>
                 \A k \in 1..Len(svc[s].opportunities.v) :
                    \E i \in 1..Len(result.v) : result.v[i] = svc[s].opportunities.v[k]
        /\ \A i \in 1..Len(result.v) :
              \E s \in Slots :
                 /\ svc[s].opportunities.kind = "list"
                 /\ svc[s].opportunities.v = <<result.v[i]>>
        /\ \A i \in 1..Len(result.v), j \in 1..Len(result.v) :
              i # j => result.v[i].symbol # result.v[j].symbol

\* one symbol failed, the other symbol's opportunity is still returned
C7_Witness ==
    /\ op = [name |-> FIND_ALL, pc |-> "returned"]
    /\ \E s \in Slots, t \in Slots :
          /\ s # t
          /\ SymbolFailed(s)
          /\ svc[s].opportunities.v = <<>>
          /\ Len(svc[t].opportunities.v) = 1
          /\ result.v = svc[t].opportunities.v

\* C9: whatever each provider does (any price, zero included, None, or an
\* exception), the four service operations never raise: the comparison is a
\* PriceComparison or None, the opportunity lists are lists, and the price
\* listing is a mapping with one list per supported symbol.
C9_ServiceNeverRaises ==
    /\ op.pc # "raised"
    /\ \A s \in Slots : frame[s].pc # "raised"
    /\ op.pc = "returned" =>
          CASE op.name = COMPARE -> result.kind \in {"none", "cmp"}
            [] op.name = FIND -> result.kind = "list" /\ Len(result.v) <= 1
            [] op.name = FIND_ALL -> result.kind = "list" /\ Len(result.v) <= Len(supported_symbols)
            [] op.name = MONITOR -> result.kind = "map" /\ DictKeys(result.v) = Symbols
            [] OTHER -> TRUE

\* a comparison that met a raising adapter and a lowest price of zero
C9_Witness ==
    /\ op = [name |-> COMPARE, pc |-> "returned"]
    /\ \E a \in Adapters : task[1][a].res.kind = "exc"
    /\ Cardinality(Responders(1)) = 2
    /\ \E a \in Responders(1) : task[1][a].res.v = 0
    /\ result = NoComparison

\* position of adapter a in the registry
RegistryIndex(a) == CHOOSE i \in 1..Len(RegistryOrder) : RegistryOrder[i] = a

\* the responders of slot s whose price is p
Holding(s, p) == {a \in Responders(s) : task[s][a].res.v = p}

\* the first adapter of set S in registry order
FirstInRegistry(S) == CHOOSE a \in S : \A b \in S : RegistryIndex(a) <= RegistryIndex(b)

\* C11: the providers named highest and lowest by get_price_comparison depend
\* only on the prices, not on the order in which the adapter calls completed:
\* among the responders holding the largest (smallest) price it is the first
\* in registry order (binance, coinbase, kraken).
C11_TieBreak ==
    \A s \in Compared :
        svc[s].comparison.kind = "cmp" =>
            LET c == svc[s].comparison
                hi == CHOOSE p \in Prices : /\ Holding(s, p) # {}
                                            /\ \A a \in Responders(s) : task[s][a].res.v <= p
                lo == CHOOSE p \in Prices : /\ Holding(s, p) # {}
                                            /\ \A a \in Responders(s) : task[s][a].res.v >= p
            IN
            /\ c.highest_price.price = hi
            /\ c.highest_price.exchange = FirstInRegistry(Holding(s, hi))
            /\ c.lowest_price.price = lo
            /\ c.lowest_price.exchange = FirstInRegistry(Holding(s, lo))

\* coinbase and kraken tie at the top: coinbase is named
C11_Witness ==
    /\ op = [name |-> COMPARE, pc |-> "returned"]
    /\ result.kind = "cmp"
    /\ task[1]["binance"].res = Value(200)
    /\ task[1]["coinbase"].res = Value(201)
    /\ task[1]["kraken"].res = Value(201)
    /\ result.highest_price.exchange = "coinbase"
    /\ result.lowest_price.exchange = "binance"

\* ------------------------------------------------------------------------
\* Claims about a registry without adapters (SpecDegraded)
\* ------------------------------------------------------------------------

\* the slots on which a manager call was made against an empty registry
OnEmptyRegistry == {s \in Slots : initialized /\ exchanges = <<>> /\ frame[s].pc # "idle"}

\* C12: with a registry that holds no adapter after initialisation,
\* get_all_prices returns the empty mapping, does not raise and issues no
\* get_price call; the comparison of the symbol is then None and its
\* opportunity list, and the list over all symbols, are empty.
C12_EmptyRegistry ==
    /\ \A s \in OnEmptyRegistry :
          /\ frame[s].pc = "returned"
          /\ frame[s].prices = <<>>
          /\ \A a \in Adapters : task[s][a] = IdleTask
          /\ op.name \in {COMPARE, FIND, FIND_ALL} =>
                /\ svc[s].st = "done"
                /\ svc[s].comparison = NoComparison
          /\ op.name \in {FIND, FIND_ALL} =>
                svc[s].opportunities = [kind |-> "list", v |-> <<>>]
    /\ (OnEmptyRegistry # {} /\ op.pc # "running") =>
          /\ op.pc = "returned"
          /\ op.name = COMPARE => result = NoComparison
          /\ op.name \in {FIND, FIND_ALL} => result = [kind |-> "list", v |-> <<>>]

\* every constructor failed; the list over all symbols came back empty
C12_Witness ==
    /\ initialized
    /\ exchanges = <<>>
    /\ op = [name |-> FIND_ALL, pc |-> "returned"]
    /\ \A s \in Slots : frame[s].pc = "returned" /\ svc[s].comparison = NoComparison
    /\ result = [kind |-> "list", v |-> <<>>]

\* ------------------------------------------------------------------------
\* Claims about termination (SpecLive)
\* ------------------------------------------------------------------------

\* the adapters whose request of slot s ended by the client's timeout
TimedOut(s) == {a \in Range(frame[s].exchange_names) :
                   task[s][a].st = "done" /\ task[s][a].resp.net = "timeout"}

\* a returned mapping reports the timed-out providers as None and keeps
\* the price of every provider that answered
TimeoutIsLocal ==
    (op = [name |-> MANAGER, pc |-> "returned"]) =>
        /\ \A a \in TimedOut(1) : DictGet(result.v, a) = None
        /\ \A a \in Range(exchanges) \ TimedOut(1) :
              DictGet(result.v, a) = Value(task[1][a].resp.price)

\* C13: every get_all_prices call eventually returns, even if a provider
\* never answers: the request to it ends by the client's timeout, that
\* provider alone is reported as None, and the prices of the providers that
\* answered are kept.
C13_EventuallyReturns ==
    /\ []TimeoutIsLocal
    /\ (frame[1].pc = "gather") ~> (frame[1].pc = "returned")

\* binance timed out; coinbase and kraken are in the result with their price
C13_Witness ==
    /\ op = [name |-> MANAGER, pc |-> "returned"]
    /\ TimedOut(1) = {"binance"}
    /\ DictGet(result.v, "binance") = None
    /\ DictGet(result.v, "coinbase") = Value(50000)
    /\ DictGet(result.v, "kraken") = Value(50300)

\* ------------------------------------------------------------------------
\* Claims about the HTTP endpoints (SpecApi)
\* ------------------------------------------------------------------------

\* C14: compare_prices answers with the PriceComparison when there is one
\* and with HTTP 404 when get_price_comparison returned None; the 404 raised
\* in the try block leaves the handler as it is, never as a 500.
C14_NotFoundPassesThrough ==
    (op = [name |-> COMPARE_PRICES, pc |-> "returned"]) =>
        /\ result.kind = "http"
        /\ svc[1].comparison.kind = "cmp" =>
              result.status = 200 /\ result.body = svc[1].comparison
        /\ svc[1].comparison.kind = "none" => result.status = 404
        /\ result.status \in {200, 404}

\* one provider answered: no comparison, the answer is 404
C14_Witness ==
    /\ op = [name |-> COMPARE_PRICES, pc |-> "returned"]
    /\ Cardinality(Responders(1)) = 1
    /\ svc[1].comparison = NoComparison
    /\ result.status = 404

\* ------------------------------------------------------------------------
\* Claims about the price listing (Spec)
\* ------------------------------------------------------------------------

\* C15: PriceMonitorService.get_all_prices returns a mapping with exactly
\* one key per supported symbol; the list of a symbol holds one Price per
\* provider that returned a price for it, with that symbol, provider and
\* price, and is empty when no provider answered or the manager call failed.
C15_PriceListing ==
    (op = [name |-> MONITOR, pc |-> "returned"]) =>
        /\ result.kind = "map"
        /\ Len(result.v) = Len(supported_symbols)
        /\ DictKeys(result.v) = Symbols
        /\ \A i \in 1..Len(result.v) :
              LET s == SymbolIndex(result.v[i].k)
                  list == result.v[i].v
              IN
              /\ frame[s].symbol = result.v[i].k
              /\ Len(list) = Cardinality(Responders(s))
              /\ {list[j].exchange : j \in 1..Len(list)} = Responders(s)
              /\ \A j \in 1..Len(list) :
                    /\ list[j].symbol = result.v[i].k
                    /\ list[j].price = task[s][list[j].exchange].res.v
              /\ frame[s].pc = "raised" => list = <<>>

\* nobody answered for the first symbol, two providers for the second,
\* one of them with a price of zero
C15_Witness ==
    /\ op = [name |-> MONITOR, pc |-> "returned"]
    /\ DictGet(result.v, supported_symbols[1]) = <<>>
    /\ Responders(2) = {"binance", "kraken"}
    /\ Len(DictGet(result.v, supported_symbols[2])) = 2
    /\ DictGet(result.v, supported_symbols[2])[1].price = 0

\* ------------------------------------------------------------------------
\* The worked example (SpecScenario)
\* ------------------------------------------------------------------------

\* on slot s, provider a returned 50000, b returned 50300, c returned None
Example(s, a, b, c) ==
    /\ op.name \in {FIND, FIND_ALL} /\ svc[s].st = "done"
    /\ {a, b, c} = Adapters
    /\ task[s][a].res = Value(50000)
    /\ task[s][b].res = Value(50300)
    /\ task[s][c].res = None

\* C16: with A = 50000, B = 50300 and C absent the comparison names B
\* (50300) highest and A (50000) lowest, with difference 300 and percentage
\* 0.6; a service with min_profit_percentage 0.5 finds exactly one
\* opportunity (buy at A for 50000, sell at B for 50300, profit 300), a
\* service with min_profit_percentage 1.0 finds none.
C16_WorkedExample ==
    \A s \in Slots, a \in Adapters, b \in Adapters, c \in Adapters :
        Example(s, a, b, c) =>
            LET cmp == svc[s].comparison
                found == svc[s].opportunities
            IN
            /\ cmp.kind = "cmp"
            /\ cmp.highest_price = [exchange |-> b, symbol |-> frame[s].symbol, price |-> 50300]
            /\ cmp.lowest_price = [exchange |-> a, symbol |-> frame[s].symbol, price |-> 50000]
            /\ cmp.price_difference = 300
            /\ RatEq(cmp.price_difference_percentage, Rat(6, 10))
            /\ found.kind = "list"
            /\ min_profit_percentage = Rat(1, 2) =>
                  /\ Len(found.v) = 1
                  /\ found.v[1].symbol = frame[s].symbol
                  /\ found.v[1].buy_exchange = a /\ found.v[1].buy_price = 50000
                  /\ found.v[1].sell_exchange = b /\ found.v[1].sell_price = 50300
                  /\ found.v[1].profit_amount = 300
                  /\ RatEq(found.v[1].profit_percentage, Rat(6, 10))
            /\ min_profit_percentage = Rat(1, 1) => found.v = <<>>

\* the example with threshold 0.5: one opportunity returned
C16_Witness ==
    /\ Example(1, "binance", "coinbase", "kraken")
    /\ min_profit_percentage = Rat(1, 2)
    /\ op = [name |-> FIND, pc |-> "returned"]
    /\ Len(result.v) = 1
    /\ result.v[1].profit_amount = 300

\* the example with threshold 1.0: nothing returned
C16_WitnessNone ==
    /\ Example(1, "kraken", "binance", "coinbase")
    /\ min_profit_percentage = Rat(1, 1)
    /\ op = [name |-> FIND, pc |-> "returned"]
    /\ result.v = <<>>

\* ------------------------------------------------------------------------
\* Claims about the registry's life and teardown (SpecLifecycle)
\* ------------------------------------------------------------------------

\* a step that keeps an initialised registry as it is, and initialises it
\* only as the first step of the first get_all_prices call
RegistryStep ==
    /\ initialized => (initialized' /\ exchanges' = exchanges)
    /\ (~initialized /\ initialized') => (op.name = "idle" /\ op'.name = MANAGER)
    /\ (op.name = "idle" /\ op'.name = MANAGER) => initialized'

\* C17: the registry is empty until the first get_all_prices call, which
\* initialises it; from then on no get_all_prices or close_all step, in any
\* interleaving, initialises it again or changes its keys.
C17_RegistryFixed ==
    /\ [](~initialized => exchanges = <<>>)
    /\ [][RegistryStep]_vars

\* a registry of two adapters, a close_all under way during a later call
C17_Witness ==
    /\ initialized
    /\ exchanges = <<"binance", "kraken">>
    /\ closer.pc = "closing"
    /\ frame[1].pc = "gather"
    /\ task[1]["kraken"].st = "inflight"

\* C18 (as claimed): once the shutdown event has completed, no adapter still
\* holds an open client: every connection has been closed.
C18_ShutdownClosesClients ==
    (op = [name |-> SHUTDOWN, pc |-> "returned"]) =>
        \A a \in Adapters : ~HoldsClient(client[a])

\* ------------------------------------------------------------------------
\* Claims about sequential teardown (SpecTeardown)
\* ------------------------------------------------------------------------

\* C19: when a close_all call has completed no adapter holds a client, and
\* the call awaited aclose() on exactly the adapters that held one: an
\* adapter without client (never created, or closed before) is left as it
\* is and a repeated close_all closes nothing; the adapters the loop has
\* passed hold no client; no created client has aclose() called twice.
C19_TeardownIdempotent ==
    /\ closer.pc = "done" =>
          /\ \A a \in Adapters : ~HoldsClient(client[a])
          /\ closer.closed = closer.had
    /\ closer.pc = "closing" =>
          \A j \in 1..(closer.i - 1) : ~HoldsClient(client[exchanges[j]])
    /\ \A a \in Adapters : acloses[a] <= 1

\* a repeated close_all: every client was closed before, nothing is closed
C19_Witness ==
    /\ closer.pc = "done"
    /\ closer.had = {}
    /\ closer.closed = {}
    /\ Len(exchanges) = 3
    /\ acloses["binance"] = 1 /\ acloses["kraken"] = 1
    /\ acloses["coinbase"] = 0

\* ------------------------------------------------------------------------
\* Claims about the Price records (Spec)
\* ------------------------------------------------------------------------

\* the Price records held by the comparison and the listing of slot s
PriceRecords(s) ==
    (IF svc[s].comparison.kind = "cmp"
     THEN Range(svc[s].comparison.prices)
          \cup {svc[s].comparison.highest_price, svc[s].comparison.lowest_price}
     ELSE {})
    \cup Range(svc[s].prices)

\* C20 (as claimed): every Price record built by the service - in a
\* comparison or in the price listing - has a strictly positive price, and so
\* have the buy_price and sell_price of every opportunity, whatever number a
\* provider returned.
C20_PricesPositive ==
    \A s \in Slots :
        /\ \A pr \in PriceRecords(s) : pr.price > 0
        /\ svc[s].opportunities.kind = "list" =>
              \A i \in 1..Len(svc[s].opportunities.v) :
                 /\ svc[s].opportunities.v[i].buy_price > 0
                 /\ svc[s].opportunities.v[i].sell_price > 0

\* ------------------------------------------------------------------------
\* Claims about concurrent calls (SpecConcurrent)
\* ------------------------------------------------------------------------

\* the get_price call of slot s on adapter a went through a client
UsedClient(s, a) ==
    \/ task[s][a].st = "inflight"
    \/ task[s][a].st = "done" /\ task[s][a].resp # NoClient

\* C21: an adapter has no client when constructed; under every interleaving
\* of concurrent get_price calls on one adapter, with no close in between,
\* at most one client is created, every call uses that client and a later
\* call reuses it.
C21_SingleClient ==
    \A a \in Adapters :
        /\ made[a] <= 1
        /\ made[a] = 0 <=> client[a] = "none"
        /\ \A s \in Slots : UsedClient(s, a) =>
               /\ made[a] = 1
               /\ task[s][a].cid = 1
               /\ client[a] = "open"

\* two calls in flight on one adapter, a third adapter whose client could
\* not be created for the first call and was created by the second
C21_Witness ==
    \E a \in Adapters, b \in Adapters :
        /\ task[1][a].st = "inflight" /\ task[2][a].st = "inflight"
        /\ task[1][b].resp = NoClient /\ task[1][b].st = "done"
        /\ task[2][b].st = "inflight"

\* C22: every get_all_prices call, after or during another call for the
\* same symbol, issues its own fetch to each registered adapter, and what
\* it returns holds only the outcomes of its own fetches.
C22_NoCoalescing ==
    \A s \in Slots :
        /\ frame[s].pc = "gather" =>
               \A a \in Range(exchanges) : task[s][a].st # "idle"
        /\ frame[s].pc = "returned" =>
               /\ DictKeys(frame[s].prices) = Range(exchanges)
               /\ \A i \in 1..Len(frame[s].prices) :
                      LET own == task[s][frame[s].prices[i].k] IN
                      /\ own.calls = 1
                      /\ own.st = "done"
                      /\ frame[s].prices[i].v = own.res

\* two concurrent calls for one symbol returned different quotes of one
\* adapter
C22_Witness ==
    /\ frame[1].pc = "returned" /\ frame[2].pc = "returned"
    /\ frame[1].symbol = frame[2].symbol
    /\ \E a \in Adapters :
          /\ DictGet(frame[1].prices, a) = Value(50000)
          /\ DictGet(frame[2].prices, a) = Value(50300)

\* ------------------------------------------------------------------------
\* Claims about the opportunities emitted (Spec)
\* ------------------------------------------------------------------------

\* the opportunity sells above its buying price, on another exchange
Profitable(o) ==
    /\ o.sell_price > o.buy_price
    /\ o.buy_exchange # o.sell_exchange

\* C27: when min_profit_percentage is above 0, every opportunity emitted
\* has sell_price > buy_price and buy_exchange # sell_exchange, whatever the
\* providers quote, equal quotes included.
C27_OpportunityIsProfitable ==
    RatLess(Rat(0, 1), min_profit_percentage) =>
        /\ \A s \in Slots : (op.name \in {FIND, FIND_ALL} /\ svc[s].st = "done") =>
               \A i \in 1..Len(svc[s].opportunities.v) :
                   Profitable(svc[s].opportunities.v[i])
        /\ (op.name \in {FIND, FIND_ALL} /\ op.pc = "returned") =>
               \A i \in 1..Len(result.v) : Profitable(result.v[i])

\* two providers quote the same price, the third a higher one, and the
\* opportunity is emitted
C27_Witness ==
    /\ op = [name |-> FIND, pc |-> "returned"]
    /\ Len(result.v) = 1
    /\ \E a \in Adapters, b \in Adapters :
          /\ a # b
          /\ task[1][a].res = Value(200) /\ task[1][b].res = Value(200)
    /\ result.v[1].sell_price = 201

\* ------------------------------------------------------------------------
\* Claims about close against calls in flight (SpecLifecycle)
\* ------------------------------------------------------------------------

\* the step in which the get_price call of slot s on adapter a ends, having
\* been in flight when the client it uses was closed
CutShort(s, a) ==
    /\ task[s][a].cut
    /\ task[s][a].st = "inflight"
    /\ task'[s][a].st = "done"

InFlightDoesNotRaise ==
    \A s \in Slots, a \in Adapters : CutShort(s, a) =>
        \/ task'[s][a].res = None
        \/ /\ task'[s][a].res.kind = "value"
           /\ is_success(task'[s][a].resp)
           /\ task'[s][a].res.v = task'[s][a].resp.price

\* once close has returned the adapter holds no client, and a get_price
\* call that starts then either fails to create one or goes out through a
\* client created for it, which no one has closed
FreshAfterClose ==
    \A s \in Slots, a \in Adapters :
        (made[a] >= 1 /\ client[a] = "none"
            /\ task[s][a].st = "sched" /\ task'[s][a].st # "sched") =>
        \/ task'[s][a].st = "done" /\ task'[s][a].resp = NoClient /\ made'[a] = made[a]
        \/ /\ task'[s][a].st = "inflight"
           /\ client'[a] = "open" /\ acloses'[a] = 0
           /\ made'[a] = 2 /\ task'[s][a].cid = 2

Kept(list, disconnected) == SelectSeq(list, LAMBDA c : c \notin Range(disconnected))

\* while broadcast_message sends, it has called send_text once on each of
\* the connections up to the one it is at, and it never raises
SendsInOrder ==
    /\ broadcast.pc # "raised"
    /\ broadcast.pc = "sending" =>
          /\ broadcast.attempted = SubSeq(broadcast.at_call, 1, broadcast.i)
          /\ active_connections = broadcast.at_call

\* the step in which broadcast_message ends
BroadcastEnds == broadcast.pc = "sending" /\ broadcast'.pc \in {"returned", "raised"}

\* when it ends it has returned, having called send_text on every
\* connection, and the list is the one of the call without those that failed
RemovesTheFailed ==
    BroadcastEnds =>
        /\ broadcast'.pc = "returned"
        /\ broadcast'.attempted = broadcast.at_call
        /\ Range(broadcast'.disconnected) \subseteq Range(broadcast.at_call)
        /\ active_connections' = Kept(broadcast.at_call, broadcast'.disconnected)

\* C23: broadcast_message run without interference attempts a send to
\* every connection, a failed send not preventing the sends to the later
\* ones; when it returns exactly the connections whose send failed have
\* been removed and all the others remain.
C23_PartialFailure == []SendsInOrder /\ [][RemovesTheFailed]_vars

\* of two connections the send to the first failed: the second was sent
\* to and remains, the first is gone
C23_Witness ==
    /\ broadcast.pc = "returned"
    /\ Len(broadcast.at_call) = 2
    /\ broadcast.disconnected = <<broadcast.at_call[1]>>
    /\ broadcast.attempted = broadcast.at_call
    /\ active_connections = <<broadcast.at_call[2]>>

\* how many times x occurs in seq
Count(seq, x) == Cardinality({i \in 1..Len(seq) : seq[i] = x})

\* when broadcast_message ends, send_text has been called once on every
\* connection that was in the list from the call to the end
SentToAllPresent ==
    BroadcastEnds =>
        \A w \in Range(broadcast.at_call) \cap Range(active_connections) :
            Count(broadcast'.attempted, w) = 1

\* C25: under every interleaving of broadcast_message with handlers that
\* add or remove connections while it is suspended in a send,
\* broadcast_message does not raise and every connection that is in
\* active_connections for the whole duration is sent the message exactly once.
C25_BroadcastInterleaved == [](broadcast.pc # "raised") /\ [][SentToAllPresent]_vars

\* the handler of w is running: accepted, not yet returned
Running(w) == handler[w].pc \in {"sleep", "fetch", "send"}

\* C26: a websocket is in active_connections exactly once from its accept
\* until its handler exits, and after the handler has exited, for whatever
\* reason, it is not in active_connections.
C26_ListedWhileRunning ==
    \A w \in WebSockets :
        /\ Running(w) => Count(active_connections, w) = 1
        /\ ~Running(w) => Count(active_connections, w) = 0

\* the handler of a listener that is connected has not ended
KeepsCycling ==
    \A w \in WebSockets :
        handler[w].pc \in {"exited", "raised"} => handler[w].peer = "gone"

\* a cycle fetches and sends after having waited the interval, and has not
\* sent before
WaitsThenSends ==
    \A w \in WebSockets :
        handler[w].pc \in {"fetch", "send"} =>
            handler[w].waited = PushInterval /\ handler[w].sends = 0

\* C24: while a listener stays connected, every cycle waits the interval of
\* 30, computes fresh results, sends exactly one update, and the cycles go
\* on without bound.
C24_PeriodicPush ==
    /\ []KeepsCycling
    /\ []WaitsThenSends
    /\ \A w \in WebSockets :
          (handler[w].pc = "sleep" /\ handler[w].peer = "connected")
             ~> (handler[w].pc = "fetch" \/ handler[w].peer = "gone")
    /\ \A w \in WebSockets :
          (handler[w].pc = "fetch" /\ handler[w].peer = "connected")
             ~> (\/ handler[w].pc = "sleep" /\ handler[w].sends = 1
                 \/ handler[w].peer = "gone")

====
